---- MODULE Spec2Model ----
(***************************************************************************)
(* Model of the UMS core (ums-core/src/ums_core.c): the channel registry,  *)
(* the sample assembler and the triple-buffer rotation between the         *)
(* foreground producer (UMSUpdate) and the completion notifier             *)
(* (UMSTransmissionComplete), which may run as an interrupt handler and    *)
(* preempt the foreground wherever the foreground is outside a critical    *)
(* section.                                                                *)
(*                                                                         *)
(* Pointers are small integers (NULL = 0); float values are small          *)
(* integers, because the engine only copies them.                          *)
(***************************************************************************)
EXTENDS Integers, Sequences, FiniteSets, TLC

(* ------------------------------ bounds -------------------------------- *)
\* number of caller-owned float variables that can be handed to UMSTrace
NumVars == 1
\* the traced variables take the values 0..MaxValue
MaxValue == 1
\* the time provider returns a value in 1..MaxTime
MaxTime == 1
\* successful UMSUpdate calls per setup
MaxUpdates == 3
\* transmit_fn invocations per setup after which no further call is started
MaxTx == 3

\* UMSTrace calls accepted after the first UMSUpdate of a setup
MaxLateTraces == 1

(* ------------------------- program constants -------------------------- *)
NULL == 0
FN == 1
BUFFER_WRITE == 0
BUFFER_PENDING == 1
BUFFER_TRANSMIT == 2
NUM_BUFFERS == 3
UMS_MAX_CHANNELS == 6
SIZEOF_UINT32 == 4
SIZEOF_UINT8 == 1
SIZEOF_FLOAT == 4

Vars == 1..NumVars
Values == 0..MaxValue
Times == 1..MaxTime
Slots == 0..(NUM_BUFFERS - 1)
Channels == 0..(UMS_MAX_CHANNELS - 1)

\* mutant: the frame size without the channel-count byte
ums_sample_size_NoCountByte(channels) == SIZEOF_UINT32 + (channels * SIZEOF_FLOAT)

\* sizeof(uint32_t) + sizeof(uint8_t) + channels * sizeof(float)
ums_sample_size(channels) == SIZEOF_UINT32 + SIZEOF_UINT8 + (channels * SIZEOF_FLOAT)

\* a sample whose bytes are all zero
ZeroSample == [timestamp |-> 0, channels |-> 0, values |-> [i \in Channels |-> 0]]

\* ums_state after memset(&ums_state, 0, sizeof(ums_state_t)), which is also the
\* value of the static instance at program start
ZeroState ==
    [transmit_fn |-> NULL, enter_critical |-> NULL, exit_critical |-> NULL,
     time_provider |-> NULL,
     trace_vars |-> [i \in Channels |-> NULL], channel_count |-> 0,
     buffers |-> [s \in Slots |-> ZeroSample],
     write_idx |-> 0, pending_idx |-> 0, transmit_idx |-> 0,
     transmission_active |-> FALSE, initialized |-> FALSE, timestamp |-> 0]

\* the configurations handed to UMSSetup: transmit_fn and time_provider present
\* or absent, the critical-section pair present or absent together
Configs ==
    {c \in [transmit_fn : {NULL, FN}, enter_critical : {NULL, FN},
            exit_critical : {NULL, FN}, time_provider : {NULL, FN}] :
        c.enter_critical = c.exit_critical}

\* what a null pConfig points at is never read
NoConfig == [transmit_fn |-> NULL, enter_critical |-> NULL, exit_critical |-> NULL,
             time_provider |-> NULL]

VARIABLES
    ums_state,     \* the static engine instance
    pc,            \* position of the foreground inside UMSUpdate, or "idle"
    upd,           \* locals of the running UMSUpdate
    tc,            \* position and locals of the running UMSTransmissionComplete
    irq_off,       \* interrupts disabled by the configured enter/exit callbacks
    cs_depth,      \* enter_critical() calls not yet matched by exit_critical()
    outstanding,   \* slots handed to transmit_fn and not yet completed, oldest first
    tx_log,        \* update ids of the samples handed to transmit_fn since setup
    last_tx,       \* arguments and context of the latest transmit_fn invocation
    slot_seq,      \* per slot: id of the UMSUpdate that filled it since setup, 0 if none
    upd_count,     \* successful UMSUpdate calls since setup
    queued,        \* id of the latest UMSUpdate queued behind a transmission, 0 if none
    reg,           \* variables of the UMSTrace calls that returned true, in order
    mem_at_call,   \* the caller's float variables when the running UMSUpdate was called
    ts_at_call,    \* the timestamp obtained by the running UMSUpdate
    late_traces,   \* UMSTrace calls accepted since the first UMSUpdate of this setup
    ret            \* the latest API call to return, and what it returned

vars == <<ums_state, pc, upd, tc, irq_off, cs_depth, outstanding, tx_log,
          last_tx, slot_seq, upd_count, queued, reg, mem_at_call, ts_at_call,
          late_traces, ret>>

ghost == <<tx_log, last_tx, slot_seq, upd_count, queued, reg, mem_at_call,
           ts_at_call, late_traces>>

NoTx == [slot |-> NUM_BUFFERS, length |-> 0, count |-> 0, registered |-> 0,
         channels |-> 0, write |-> 0, depth |-> 0, masked |-> FALSE,
         from |-> "none"]
UpdIdle == [sample |-> 0, current_timestamp |-> 0, start_transmission |-> FALSE,
            tx_idx |-> 0]
TcIdle == [pc |-> "idle", start_transmission |-> FALSE, tx_idx |-> 0]

Init ==
    /\ ums_state = ZeroState
    /\ pc = "idle"
    /\ upd = UpdIdle
    /\ tc = TcIdle
    /\ irq_off = FALSE
    /\ cs_depth = 0
    /\ outstanding = <<>>
    /\ tx_log = <<>>
    /\ last_tx = NoTx
    /\ slot_seq = [s \in Slots |-> 0]
    /\ upd_count = 0
    /\ queued = 0
    /\ reg = <<>>
    /\ mem_at_call = [v \in Vars |-> 0]
    /\ ts_at_call = 0
    /\ late_traces = 0
    /\ ret = [op |-> "none", val |-> "void"]

(* --------------------------- helper functions -------------------------- *)
\* enter_critical(): the callback, when configured, disables interrupts
enter_critical(st, irq) == IF st.enter_critical # NULL THEN TRUE ELSE irq

\* exit_critical(): the callback, when configured, enables interrupts
exit_critical(st, irq) == IF st.exit_critical # NULL THEN FALSE ELSE irq

\* mutant: the swap without its temporary, pending_idx = write_idx after the overwrite
SwapWritePending_NoTemp(st) == [st EXCEPT !.write_idx = st.pending_idx]

\* temp = write_idx; write_idx = pending_idx; pending_idx = temp
SwapWritePending(st) ==
    [st EXCEPT !.write_idx = st.pending_idx, !.pending_idx = st.write_idx]

\* mutant: the handler's swap exchanges the write slot, not the pending slot
SwapPendingTransmit_WrongRole(st) ==
    [st EXCEPT !.write_idx = st.transmit_idx, !.transmit_idx = st.write_idx]

\* temp = pending_idx; pending_idx = transmit_idx; transmit_idx = temp
SwapPendingTransmit(st) ==
    [st EXCEPT !.pending_idx = st.transmit_idx, !.transmit_idx = st.pending_idx]

\* the test UMSTransmissionComplete makes for "pending buffer has new data"
HasPendingData(st) == st.pending_idx # st.transmit_idx

\* for (i = 0; i < channel_count; i++) sample->values[i] = *(trace_vars[i]);
RECURSIVE CopyValues(_, _, _, _)
CopyValues(values, st, m, i) ==
    IF i < st.channel_count
    THEN CopyValues([values EXCEPT ![i] = m[st.trace_vars[i]]], st, m, i + 1)
    ELSE values

\* mutant: the copy loop starts at channel 1
AssembleSample_LoopFromOne(old, st, m, ts) ==
    [timestamp |-> ts, channels |-> st.channel_count,
     values |-> CopyValues(old.values, st, m, 1)]

\* sample->timestamp = ...; sample->channels = ...; the copy loop
AssembleSample(old, st, m, ts) ==
    [timestamp |-> ts, channels |-> st.channel_count,
     values |-> CopyValues(old.values, st, m, 0)]

\* transmit_fn(&buffers[slot], ums_sample_size(channel_count)) as the driver sees
\* it: the arguments, and the engine's situation at the moment of the call
TxRecord(st, slot, who) ==
    [slot |-> slot, length |-> ums_sample_size(st.channel_count),
     count |-> st.channel_count, registered |-> Len(reg),
     channels |-> st.buffers[slot].channels, write |-> st.write_idx,
     depth |-> cs_depth, masked |-> irq_off, from |-> who]

\* the foreground runs only while no interrupt handler is running
Foreground == tc.pc = "idle"
\* a handler can start where the interrupted code is outside a critical section
\* and has not disabled interrupts; called from the foreground it starts at idle
CanComplete == tc.pc = "idle" /\ (pc = "idle" \/ (cs_depth = 0 /\ ~irq_off))

(* ------------------------------ UMSSetup ------------------------------- *)
\* mutant: UMSSetup without its test for an engine that is already initialized
UMSSetup_NoInitCheck(pConfig, config) ==
    /\ pc = "idle" /\ Foreground
    /\ IF pConfig = NULL \/ config.transmit_fn = NULL
       THEN /\ ret' = [op |-> "UMSSetup", val |-> "false"]
            /\ UNCHANGED <<ums_state, tx_log, last_tx, slot_seq, upd_count, queued,
                           reg, late_traces>>
       ELSE /\ ums_state' = [ZeroState EXCEPT
                    !.transmit_fn = config.transmit_fn,
                    !.enter_critical = config.enter_critical,
                    !.exit_critical = config.exit_critical,
                    !.time_provider = config.time_provider,
                    !.write_idx = BUFFER_WRITE,
                    !.pending_idx = BUFFER_PENDING,
                    !.transmit_idx = BUFFER_TRANSMIT,
                    !.transmission_active = FALSE,
                    !.timestamp = 0,
                    !.channel_count = 0,
                    !.initialized = TRUE]
            /\ ret' = [op |-> "UMSSetup", val |-> "true"]
            /\ tx_log' = <<>>
            /\ last_tx' = NoTx
            /\ slot_seq' = [s \in Slots |-> 0]
            /\ upd_count' = 0
            /\ queued' = 0
            /\ reg' = <<>>
            /\ late_traces' = 0
    /\ UNCHANGED <<pc, upd, tc, irq_off, cs_depth, outstanding, mem_at_call,
                   ts_at_call>>

\* lines 54-84
UMSSetup(pConfig, config) ==
    /\ pc = "idle" /\ Foreground
    /\ IF pConfig = NULL \/ config.transmit_fn = NULL \/ ums_state.initialized
       THEN /\ ret' = [op |-> "UMSSetup", val |-> "false"]
            /\ UNCHANGED <<ums_state, tx_log, last_tx, slot_seq, upd_count, queued,
                           reg, late_traces>>
       ELSE /\ ums_state' = [ZeroState EXCEPT
                    !.transmit_fn = config.transmit_fn,
                    !.enter_critical = config.enter_critical,
                    !.exit_critical = config.exit_critical,
                    !.time_provider = config.time_provider,
                    !.write_idx = BUFFER_WRITE,
                    !.pending_idx = BUFFER_PENDING,
                    !.transmit_idx = BUFFER_TRANSMIT,
                    !.transmission_active = FALSE,
                    !.timestamp = 0,
                    !.channel_count = 0,
                    !.initialized = TRUE]
            /\ ret' = [op |-> "UMSSetup", val |-> "true"]
            /\ tx_log' = <<>>
            /\ last_tx' = NoTx
            /\ slot_seq' = [s \in Slots |-> 0]
            /\ upd_count' = 0
            /\ queued' = 0
            /\ reg' = <<>>
            /\ late_traces' = 0
    /\ UNCHANGED <<pc, upd, tc, irq_off, cs_depth, outstanding, mem_at_call,
                   ts_at_call>>

(* ------------------------------ UMSTrace ------------------------------- *)
\* mutant: the capacity test lets a seventh channel in
UMSTrace_OffByOne(pVariable) ==
    /\ pc = "idle" /\ Foreground
    /\ IF \/ ~ums_state.initialized
          \/ pVariable = NULL
          \/ ums_state.channel_count > UMS_MAX_CHANNELS
       THEN /\ ret' = [op |-> "UMSTrace", val |-> "false"]
            /\ UNCHANGED <<ums_state, reg, late_traces>>
       ELSE /\ upd_count > 0 => late_traces < MaxLateTraces
            /\ late_traces' = IF upd_count > 0 THEN late_traces + 1 ELSE late_traces
            /\ ums_state' = [ums_state EXCEPT
                    !.trace_vars[ums_state.channel_count] = pVariable,
                    !.channel_count = ums_state.channel_count + 1]
            /\ ret' = [op |-> "UMSTrace", val |-> "true"]
            /\ reg' = Append(reg, pVariable)
    /\ UNCHANGED <<pc, upd, tc, irq_off, cs_depth, outstanding, tx_log, last_tx,
                   slot_seq, upd_count, queued, mem_at_call, ts_at_call>>

\* mutant: UMSTrace without its test for an uninitialized engine
UMSTrace_NoInitCheck(pVariable) ==
    /\ pc = "idle" /\ Foreground
    /\ IF \/ pVariable = NULL
          \/ ums_state.channel_count >= UMS_MAX_CHANNELS
       THEN /\ ret' = [op |-> "UMSTrace", val |-> "false"]
            /\ UNCHANGED <<ums_state, reg, late_traces>>
       ELSE /\ upd_count > 0 => late_traces < MaxLateTraces
            /\ late_traces' = IF upd_count > 0 THEN late_traces + 1 ELSE late_traces
            /\ ums_state' = [ums_state EXCEPT
                    !.trace_vars[ums_state.channel_count] = pVariable,
                    !.channel_count = ums_state.channel_count + 1]
            /\ ret' = [op |-> "UMSTrace", val |-> "true"]
            /\ reg' = Append(reg, pVariable)
    /\ UNCHANGED <<pc, upd, tc, irq_off, cs_depth, outstanding, tx_log, last_tx,
                   slot_seq, upd_count, queued, mem_at_call, ts_at_call>>

\* lines 86-103
UMSTrace(pVariable) ==
    /\ pc = "idle" /\ Foreground
    /\ IF \/ ~ums_state.initialized
          \/ pVariable = NULL
          \/ ums_state.channel_count >= UMS_MAX_CHANNELS
       THEN /\ ret' = [op |-> "UMSTrace", val |-> "false"]
            /\ UNCHANGED <<ums_state, reg, late_traces>>
       ELSE /\ upd_count > 0 => late_traces < MaxLateTraces
            /\ late_traces' = IF upd_count > 0 THEN late_traces + 1 ELSE late_traces
            /\ ums_state' = [ums_state EXCEPT
                    !.trace_vars[ums_state.channel_count] = pVariable,
                    !.channel_count = ums_state.channel_count + 1]
            /\ ret' = [op |-> "UMSTrace", val |-> "true"]
            /\ reg' = Append(reg, pVariable)
    /\ UNCHANGED <<pc, upd, tc, irq_off, cs_depth, outstanding, tx_log, last_tx,
                   slot_seq, upd_count, queued, mem_at_call, ts_at_call>>

(* ------------------------------ UMSUpdate ------------------------------ *)
\* mutant: UMSUpdate without its test for zero channels
UMSUpdate_Entry_NoChannelCheck ==
    /\ pc = "idle" /\ Foreground
    /\ IF ~ums_state.initialized
       THEN /\ ret' = [op |-> "UMSUpdate", val |-> "false"]
            /\ UNCHANGED <<pc, upd, upd_count, mem_at_call>>
       ELSE /\ upd_count < MaxUpdates
            /\ Len(tx_log) < MaxTx
            /\ pc' = "u_timestamp"
            /\ upd' = [UpdIdle EXCEPT !.sample = ums_state.write_idx]
            /\ upd_count' = upd_count + 1
            /\ \E m \in [Vars -> Values] : mem_at_call' = m
            /\ ret' = [op |-> "UMSUpdate", val |-> "running"]
    /\ UNCHANGED <<ums_state, tc, irq_off, cs_depth, outstanding, tx_log, last_tx,
                   slot_seq, queued, reg, late_traces, ts_at_call>>

\* lines 105-115: the two rejections, then sample = &buffers[write_idx]
UMSUpdate_Entry ==
    /\ pc = "idle" /\ Foreground
    /\ IF ~ums_state.initialized \/ ums_state.channel_count = 0
       THEN /\ ret' = [op |-> "UMSUpdate", val |-> "false"]
            /\ UNCHANGED <<pc, upd, upd_count, mem_at_call>>
       ELSE /\ upd_count < MaxUpdates
            /\ Len(tx_log) < MaxTx
            /\ pc' = "u_timestamp"
            /\ upd' = [UpdIdle EXCEPT !.sample = ums_state.write_idx]
            /\ upd_count' = upd_count + 1
            /\ \E m \in [Vars -> Values] : mem_at_call' = m
            /\ ret' = [op |-> "UMSUpdate", val |-> "running"]
    /\ UNCHANGED <<ums_state, tc, irq_off, cs_depth, outstanding, tx_log, last_tx,
                   slot_seq, queued, reg, late_traces, ts_at_call>>

\* lines 117-124: the time provider's value, or enter_critical() for the counter
UMSUpdate_Timestamp ==
    /\ pc = "u_timestamp" /\ Foreground
    /\ IF ums_state.time_provider # NULL
       THEN /\ \E t \in Times :
                 /\ upd' = [upd EXCEPT !.current_timestamp = t]
                 /\ ts_at_call' = t
            /\ pc' = "u_assemble"
            /\ UNCHANGED <<irq_off, cs_depth>>
       ELSE /\ irq_off' = enter_critical(ums_state, irq_off)
            /\ cs_depth' = cs_depth + 1
            /\ pc' = "u_counter"
            /\ UNCHANGED <<upd, ts_at_call>>
    /\ UNCHANGED <<ums_state, tc, outstanding, tx_log, last_tx, slot_seq,
                   upd_count, queued, reg, late_traces, mem_at_call, ret>>

\* mutant: the counter is incremented before it is read (++timestamp)
UMSUpdate_Counter_PreIncrement ==
    /\ pc = "u_counter" /\ Foreground
    /\ upd' = [upd EXCEPT !.current_timestamp = ums_state.timestamp + 1]
    /\ ts_at_call' = ums_state.timestamp + 1
    /\ ums_state' = [ums_state EXCEPT !.timestamp = ums_state.timestamp + 1]
    /\ irq_off' = exit_critical(ums_state, irq_off)
    /\ cs_depth' = cs_depth - 1
    /\ pc' = "u_assemble"
    /\ UNCHANGED <<tc, outstanding, tx_log, last_tx, slot_seq, upd_count, queued,
                   reg, late_traces, mem_at_call, ret>>

\* lines 125-126: current_timestamp = timestamp++; exit_critical().  The counter
\* is a uint32_t; it stays below MaxUpdates here, far from its wrap at 2^32.
UMSUpdate_Counter ==
    /\ pc = "u_counter" /\ Foreground
    /\ upd' = [upd EXCEPT !.current_timestamp = ums_state.timestamp]
    /\ ts_at_call' = ums_state.timestamp
    /\ ums_state' = [ums_state EXCEPT !.timestamp = ums_state.timestamp + 1]
    /\ irq_off' = exit_critical(ums_state, irq_off)
    /\ cs_depth' = cs_depth - 1
    /\ pc' = "u_assemble"
    /\ UNCHANGED <<tc, outstanding, tx_log, last_tx, slot_seq, upd_count, queued,
                   reg, late_traces, mem_at_call, ret>>

\* lines 129-138: fill the sample, then enter_critical()
UMSUpdate_Assemble ==
    /\ pc = "u_assemble" /\ Foreground
    /\ ums_state' = [ums_state EXCEPT !.buffers[upd.sample] =
            AssembleSample(ums_state.buffers[upd.sample], ums_state, mem_at_call,
                           upd.current_timestamp)]
    /\ slot_seq' = [slot_seq EXCEPT ![upd.sample] = upd_count]
    /\ irq_off' = enter_critical(ums_state, irq_off)
    /\ cs_depth' = cs_depth + 1
    /\ pc' = "u_swap"
    /\ UNCHANGED <<upd, tc, outstanding, tx_log, last_tx, upd_count, queued, reg, late_traces,
                   mem_at_call, ts_at_call, ret>>

\* mutant: UMSUpdate starts a transmission without looking at transmission_active
UpdateRotate_AlwaysStart(st) ==
    LET b == SwapPendingTransmit([SwapWritePending(st) EXCEPT
                                      !.transmission_active = TRUE]) IN
    [state |-> b, start_transmission |-> TRUE, tx_idx |-> b.transmit_idx]

\* lines 141-159: what UMSUpdate does inside its critical section: the engine
\* state it leaves and its locals start_transmission and tx_idx
UpdateRotate(st) ==
    LET a == SwapWritePending(st) IN
    IF ~a.transmission_active
    THEN LET b == SwapPendingTransmit([a EXCEPT !.transmission_active = TRUE]) IN
         [state |-> b, start_transmission |-> TRUE, tx_idx |-> b.transmit_idx]
    ELSE [state |-> a, start_transmission |-> FALSE, tx_idx |-> 0]

\* lines 141-161: rotate, then exit_critical()
UMSUpdate_Swap ==
    /\ pc = "u_swap" /\ Foreground
    /\ ums_state' = UpdateRotate(ums_state).state
    /\ upd' = [upd EXCEPT
            !.start_transmission = UpdateRotate(ums_state).start_transmission,
            !.tx_idx = UpdateRotate(ums_state).tx_idx]
    /\ queued' = IF outstanding # <<>> THEN upd_count ELSE queued
    /\ irq_off' = exit_critical(ums_state, irq_off)
    /\ cs_depth' = cs_depth - 1
    /\ pc' = "u_transmit"
    /\ UNCHANGED <<tc, outstanding, tx_log, last_tx, slot_seq, upd_count, reg,
                   late_traces, mem_at_call, ts_at_call, ret>>

\* lines 163-170: transmit_fn outside the critical section, return true
UMSUpdate_Transmit ==
    /\ pc = "u_transmit" /\ Foreground
    /\ IF upd.start_transmission
       THEN /\ last_tx' = TxRecord(ums_state, upd.tx_idx, "UMSUpdate")
            /\ tx_log' = Append(tx_log, slot_seq[upd.tx_idx])
            /\ outstanding' = Append(outstanding, upd.tx_idx)
            /\ queued' = 0
       ELSE UNCHANGED <<last_tx, tx_log, outstanding, queued>>
    /\ pc' = "idle"
    /\ upd' = UpdIdle
    /\ mem_at_call' = [v \in Vars |-> 0]
    /\ ts_at_call' = 0
    /\ ret' = [op |-> "UMSUpdate", val |-> "true"]
    /\ UNCHANGED <<ums_state, tc, irq_off, cs_depth, slot_seq, upd_count, reg,
                   late_traces>>

(* ----------------------- UMSTransmissionComplete ----------------------- *)
\* lines 173-179: return when uninitialized, else enter_critical()
UMSTransmissionComplete_Call ==
    /\ CanComplete
    /\ outstanding' = IF outstanding = <<>> THEN outstanding ELSE Tail(outstanding)
    /\ IF ~ums_state.initialized
       THEN /\ ret' = [op |-> "UMSTransmissionComplete", val |-> "void"]
            /\ UNCHANGED <<tc, irq_off, cs_depth>>
       ELSE /\ tc' = [TcIdle EXCEPT !.pc = "c_swap"]
            /\ irq_off' = enter_critical(ums_state, irq_off)
            /\ cs_depth' = cs_depth + 1
            /\ UNCHANGED ret
    /\ UNCHANGED <<ums_state, pc, upd, tx_log, last_tx, slot_seq, upd_count,
                   queued, reg, late_traces, mem_at_call, ts_at_call>>

\* the call, while the log of transmit_fn invocations has room
UMSTransmissionComplete_Entry ==
    /\ Len(tx_log) < MaxTx
    /\ UMSTransmissionComplete_Call

\* a completion the driver owes for a transmission it was handed
Completion == outstanding # <<>> /\ UMSTransmissionComplete_Entry

\* a call that answers no transmission
SpuriousCompletion == outstanding = <<>> /\ UMSTransmissionComplete_Entry

\* lines 181-196: what UMSTransmissionComplete does inside its critical section:
\* the engine state it leaves and its locals start_transmission and tx_idx
CompleteRotate(st) ==
    IF HasPendingData(st)
    THEN LET b == SwapPendingTransmit(st) IN
         [state |-> b, start_transmission |-> TRUE, tx_idx |-> b.transmit_idx]
    ELSE [state |-> [st EXCEPT !.transmission_active = FALSE],
          start_transmission |-> FALSE, tx_idx |-> 0]

\* lines 181-198: rotate, then exit_critical()
UMSTransmissionComplete_Swap ==
    /\ tc.pc = "c_swap"
    /\ ums_state' = CompleteRotate(ums_state).state
    /\ tc' = [tc EXCEPT
            !.pc = "c_transmit",
            !.start_transmission = CompleteRotate(ums_state).start_transmission,
            !.tx_idx = CompleteRotate(ums_state).tx_idx]
    /\ irq_off' = exit_critical(ums_state, irq_off)
    /\ cs_depth' = cs_depth - 1
    /\ UNCHANGED <<pc, upd, outstanding, ghost, ret>>

\* lines 200-205: transmit_fn outside the critical section
UMSTransmissionComplete_Transmit ==
    /\ tc.pc = "c_transmit"
    /\ IF tc.start_transmission
       THEN /\ last_tx' = TxRecord(ums_state, tc.tx_idx, "UMSTransmissionComplete")
            /\ tx_log' = Append(tx_log, slot_seq[tc.tx_idx])
            /\ outstanding' = Append(outstanding, tc.tx_idx)
            /\ queued' = 0
       ELSE UNCHANGED <<last_tx, tx_log, outstanding, queued>>
    /\ tc' = TcIdle
    /\ ret' = [op |-> "UMSTransmissionComplete", val |-> "void"]
    /\ UNCHANGED <<ums_state, pc, upd, irq_off, cs_depth, slot_seq, upd_count,
                   reg, late_traces, mem_at_call, ts_at_call>>

(* ------------------------------ UMSDestroy ----------------------------- *)
\* mutant: UMSDestroy clears the initialized flag and leaves the rest of the state
UMSDestroy_OnlyFlag ==
    /\ pc = "idle" /\ Foreground
    /\ ums_state' = [ums_state EXCEPT !.initialized = FALSE]
    /\ irq_off' = exit_critical(ums_state, enter_critical(ums_state, irq_off))
    /\ outstanding' = <<>>
    /\ ret' = [op |-> "UMSDestroy", val |-> "void"]
    /\ tx_log' = <<>>
    /\ last_tx' = NoTx
    /\ slot_seq' = [s \in Slots |-> 0]
    /\ upd_count' = 0
    /\ queued' = 0
    /\ reg' = <<>>
    /\ mem_at_call' = [v \in Vars |-> 0]
    /\ ts_at_call' = 0
    /\ late_traces' = 0
    /\ UNCHANGED <<pc, upd, tc, cs_depth>>

\* enter_critical(); memset(&ums_state, 0, ...); exit_critical(): the exit helper
\* reads the callback pointer that the memset has just cleared.  Tearing the
\* engine down also abandons whatever the driver was still sending.
UMSDestroy ==
    /\ pc = "idle" /\ Foreground
    /\ ums_state' = ZeroState
    /\ irq_off' = exit_critical(ZeroState, enter_critical(ums_state, irq_off))
    /\ outstanding' = <<>>
    /\ ret' = [op |-> "UMSDestroy", val |-> "void"]
    /\ tx_log' = <<>>
    /\ last_tx' = NoTx
    /\ slot_seq' = [s \in Slots |-> 0]
    /\ upd_count' = 0
    /\ queued' = 0
    /\ reg' = <<>>
    /\ mem_at_call' = [v \in Vars |-> 0]
    /\ ts_at_call' = 0
    /\ late_traces' = 0
    /\ UNCHANGED <<pc, upd, tc, cs_depth>>

Foregrounds ==
    \/ \E c \in Configs : UMSSetup(FN, c)
    \/ UMSSetup(NULL, NoConfig)
    \/ \E v \in {NULL} \cup Vars : UMSTrace(v)
    \/ UMSUpdate_Entry
    \/ UMSUpdate_Timestamp
    \/ UMSUpdate_Counter
    \/ UMSUpdate_Assemble
    \/ UMSUpdate_Swap
    \/ UMSUpdate_Transmit
    \/ UMSDestroy

Handler ==
    \/ UMSTransmissionComplete_Swap
    \/ UMSTransmissionComplete_Transmit

\* every call sequence, UMSTransmissionComplete also when nothing is outstanding
Next == Foregrounds \/ Handler \/ Completion \/ SpuriousCompletion
Spec == Init /\ [][Next]_vars

\* the driver calls UMSTransmissionComplete once per transmit_fn invocation
NextDriver == Foregrounds \/ Handler \/ Completion
SpecDriver == Init /\ [][NextDriver]_vars

(* ------------------- one setup with a fair driver --------------------- *)
\* lines 200-205 once tx_log is full: the same call of transmit_fn, no longer logged
UMSTransmissionComplete_TransmitUnlogged ==
    /\ tc.pc = "c_transmit"
    /\ Len(tx_log) >= MaxTx
    /\ IF tc.start_transmission
       THEN /\ last_tx' = TxRecord(ums_state, tc.tx_idx, "UMSTransmissionComplete")
            /\ outstanding' = Append(outstanding, tc.tx_idx)
            /\ queued' = 0
       ELSE UNCHANGED <<last_tx, outstanding, queued>>
    /\ tc' = TcIdle
    /\ ret' = [op |-> "UMSTransmissionComplete", val |-> "void"]
    /\ UNCHANGED <<ums_state, pc, upd, irq_off, cs_depth, tx_log, slot_seq,
                   upd_count, reg, late_traces, mem_at_call, ts_at_call>>

\* the driver's completion of a transmission, also when tx_log is full
DriverCompletes == outstanding # <<>> /\ UMSTransmissionComplete_Call

\* the handler runs to its end
HandlerSteps ==
    \/ UMSTransmissionComplete_Swap
    \/ Len(tx_log) < MaxTx /\ UMSTransmissionComplete_Transmit
    \/ UMSTransmissionComplete_TransmitUnlogged

\* a UMSUpdate that was called runs to its return
UpdateSteps ==
    \/ UMSUpdate_Timestamp
    \/ UMSUpdate_Counter
    \/ UMSUpdate_Assemble
    \/ UMSUpdate_Swap
    \/ UMSUpdate_Transmit

\* one setup: UMSSetup, UMSTrace and UMSUpdate calls from the foreground and a
\* driver that completes every transmission it was handed
NextFair ==
    \/ \E c \in Configs : UMSSetup(FN, c)
    \/ \E v \in Vars : UMSTrace(v)
    \/ UMSUpdate_Entry
    \/ UpdateSteps
    \/ HandlerSteps
    \/ DriverCompletes
SpecFair ==
    /\ Init /\ [][NextFair]_vars
    /\ WF_vars(UpdateSteps) /\ WF_vars(HandlerSteps) /\ SF_vars(DriverCompletes)

(* ============================== properties ============================== *)
RoleIndices == {ums_state.write_idx, ums_state.pending_idx, ums_state.transmit_idx}
\* UMSUpdate holds a pointer to the slot it read from write_idx and has not yet
\* rotated it away
Filling == pc \in {"u_timestamp", "u_counter", "u_assemble", "u_swap"}

\* C1: after a successful UMSSetup, whatever UMSTrace, UMSUpdate and
\* UMSTransmissionComplete calls follow and wherever the completion preempts the
\* update, write_idx, pending_idx and transmit_idx are three different values of {0,1,2}
C1_RolesPairwiseDistinct ==
    ums_state.initialized =>
        /\ RoleIndices \subseteq Slots
        /\ Cardinality(RoleIndices) = NUM_BUFFERS

\* a completion has preempted the running update and rotated the roles
C1_Witness ==
    /\ ums_state.initialized
    /\ pc = "u_assemble" /\ tc.pc = "c_transmit" /\ tc.start_transmission
    /\ ums_state.transmit_idx = BUFFER_PENDING

C3_QueuingLaw ==
    [][ /\ (pc = "u_swap" /\ pc' = "u_transmit") =>
              /\ upd_count = 1 => upd'.start_transmission
              /\ outstanding # <<>> => ~upd'.start_transmission
        /\ (pc = "u_transmit" /\ pc' = "idle") =>
              Len(tx_log') = Len(tx_log) + (IF upd.start_transmission THEN 1 ELSE 0)
        /\ (tc.pc = "c_transmit" /\ tc'.pc = "idle" /\ queued # 0) =>
              /\ tx_log' = Append(tx_log, queued)
              /\ slot_seq[last_tx'.slot] = queued
      ]_vars

\* the third update superseded the second in the queue and was sent by the completion
C3_Witness ==
    /\ tx_log = <<1, 3>>
    /\ last_tx.from = "UMSTransmissionComplete"
    /\ upd_count = 3

\* C4: a completion that finds no update queued since the transmission now
\* completing was started clears transmission_active, leaves the role indices alone
\* and does not invoke transmit_fn; one that finds queued data swaps pending_idx with
\* transmit_idx, keeps transmission_active and invokes transmit_fn for the new slot
C4_CompletionLaw ==
    [][ (tc.pc = "c_swap" /\ tc'.pc = "c_transmit") =>
            IF queued = 0
            THEN /\ ~ums_state'.transmission_active
                 /\ ums_state'.write_idx = ums_state.write_idx
                 /\ ums_state'.pending_idx = ums_state.pending_idx
                 /\ ums_state'.transmit_idx = ums_state.transmit_idx
                 /\ ~tc'.start_transmission
            ELSE /\ ums_state'.transmission_active
                 /\ ums_state'.write_idx = ums_state.write_idx
                 /\ ums_state'.pending_idx = ums_state.transmit_idx
                 /\ ums_state'.transmit_idx = ums_state.pending_idx
                 /\ tc'.start_transmission
                 /\ tc'.tx_idx = ums_state.pending_idx
      ]_vars

\* C5: every transmit_fn invocation hands over the sample of a successful
\* UMSUpdate that was not handed over before, and never the slot bound to write_idx
C5_NoSampleSentTwice ==
    /\ \A i \in DOMAIN tx_log : tx_log[i] # 0
    /\ \A i, j \in DOMAIN tx_log : i # j => tx_log[i] # tx_log[j]
    /\ last_tx.from # "none" => last_tx.slot # last_tx.write

\* slots holding an assembled sample that waits behind the transmission: filled by
\* an update, not handed to transmit_fn, and bound neither to write nor in flight
QueuedSlots ==
    {s \in Slots : /\ slot_seq[s] # 0
                   /\ \A i \in DOMAIN tx_log : tx_log[i] # slot_seq[s]
                   /\ s # ums_state.write_idx
                   /\ \A i \in DOMAIN outstanding : outstanding[i] # s}

C7_LengthIsFrameSize ==
    last_tx.from # "none" =>
        /\ last_tx.length = 4 + 1 + 4 * last_tx.registered
        /\ last_tx.registered = 1 => last_tx.length = 9
        /\ last_tx.registered = 3 => last_tx.length = 17
        /\ last_tx.registered = UMS_MAX_CHANNELS => last_tx.length = 29

\* a completion sent a frame with all six channels registered
C7_Witness ==
    /\ last_tx.from = "UMSTransmissionComplete"
    /\ last_tx.registered = UMS_MAX_CHANNELS
    /\ last_tx.length = 29

C9_TraceCount ==
    /\ [](ums_state.channel_count = Len(reg) /\ Len(reg) <= UMS_MAX_CHANNELS)
    /\ [][ (ums_state.channel_count = UMS_MAX_CHANNELS
            /\ \E v \in {NULL} \cup Vars : UMSTrace(v)) =>
                /\ ret' = [op |-> "UMSTrace", val |-> "false"]
                /\ ums_state'.channel_count = ums_state.channel_count
                /\ ums_state'.trace_vars = ums_state.trace_vars
                /\ reg' = reg
         ]_vars

\* a UMSTrace call was refused with all six channels registered
C9_Witness ==
    /\ ums_state.channel_count = UMS_MAX_CHANNELS
    /\ Len(reg) = UMS_MAX_CHANNELS
    /\ ret = [op |-> "UMSTrace", val |-> "false"]

\* what a rejected call must leave alone: the role indices, transmission_active and
\* the timestamp counter, the critical sections and the transmit_fn invocations
RejectedCallEffects ==
    /\ ums_state'.write_idx = ums_state.write_idx
    /\ ums_state'.pending_idx = ums_state.pending_idx
    /\ ums_state'.transmit_idx = ums_state.transmit_idx
    /\ ums_state'.transmission_active = ums_state.transmission_active
    /\ ums_state'.timestamp = ums_state.timestamp
    /\ cs_depth' = cs_depth /\ irq_off' = irq_off
    /\ pc' = "idle" /\ tc'.pc = "idle"
    /\ tx_log' = tx_log /\ last_tx' = last_tx

\* C10: UMSUpdate on an uninitialized engine or with no channel returns false, and
\* UMSTransmissionComplete on an uninitialized engine returns, without touching the
\* role indices, transmission_active or the counter, without entering a critical
\* section and without invoking transmit_fn
C10_RejectedCalls ==
    [][ /\ (UMSUpdate_Entry
            /\ (~ums_state.initialized \/ ums_state.channel_count = 0)) =>
                (ret' = [op |-> "UMSUpdate", val |-> "false"] /\ RejectedCallEffects)
        /\ (UMSTransmissionComplete_Entry /\ ~ums_state.initialized) =>
                (ret' = [op |-> "UMSTransmissionComplete", val |-> "void"]
                 /\ RejectedCallEffects)
      ]_vars

\* UMSUpdate was refused on an initialized engine without channels
C10_Witness ==
    /\ ums_state.initialized
    /\ ums_state.channel_count = 0
    /\ ret = [op |-> "UMSUpdate", val |-> "false"]

\* the state a successful UMSSetup establishes, apart from the stored callbacks
SetupDefaults(st) ==
    /\ st.initialized
    /\ st.write_idx = 0 /\ st.pending_idx = 1 /\ st.transmit_idx = 2
    /\ ~st.transmission_active
    /\ st.channel_count = 0
    /\ st.timestamp = 0

\* C11: UMSSetup returns true exactly when the config pointer and transmit_fn are
\* non-null and the engine is not initialized; on success the engine is initialized
\* with the roles 0, 1, 2, no transmission, no channel and the counter at 0; on
\* failure, a second setup included, the engine state is what it was
C11_SetupContract ==
    [][ /\ \A c \in Configs : UMSSetup(FN, c) =>
              /\ ret'.val = "true" <=> (c.transmit_fn # NULL /\ ~ums_state.initialized)
              /\ ret'.val = "true" =>
                    /\ SetupDefaults(ums_state')
                    /\ ums_state'.transmit_fn = c.transmit_fn
                    /\ ums_state'.enter_critical = c.enter_critical
                    /\ ums_state'.exit_critical = c.exit_critical
                    /\ ums_state'.time_provider = c.time_provider
              /\ ret'.val = "false" => ums_state' = ums_state
        /\ UMSSetup(NULL, NoConfig) =>
              (ret'.val = "false" /\ ums_state' = ums_state)
      ]_vars

\* a second UMSSetup was refused on an engine that has a channel and has rotated
C11_Witness ==
    /\ ret = [op |-> "UMSSetup", val |-> "false"]
    /\ ums_state.initialized
    /\ ums_state.channel_count = 1
    /\ ums_state.write_idx # BUFFER_WRITE

\* a UMSSetup call that returns false
FailedSetup ==
    /\ UMSSetup(NULL, NoConfig) \/ \E c \in Configs : UMSSetup(FN, c)
    /\ ret'.val = "false"

\* on an uninitialized engine UMSTrace and UMSUpdate return false, and only a
\* UMSSetup that returns true makes the engine initialized
UninitializedFailsFast ==
    ~ums_state.initialized =>
        /\ \A v \in {NULL} \cup Vars : UMSTrace(v) => ret'.val = "false"
        /\ UMSUpdate_Entry => ret'.val = "false"
        /\ ums_state'.initialized =>
              (ret'.val = "true" /\ \E c \in Configs : UMSSetup(FN, c))

\* C12 as stated: after any failed UMSSetup, the one refused on an initialized
\* engine included, the engine is uninitialized, and UMSTrace and UMSUpdate fail
\* until a UMSSetup succeeds
C12_FailedSetupLeavesUninitialized ==
    [][ /\ FailedSetup => ~ums_state'.initialized
        /\ UninitializedFailsFast
      ]_vars

\* C12 as amended: a failed UMSSetup leaves the engine initialized exactly if it
\* was; after one on an uninitialized engine (null config or null transmit_fn)
\* the engine is uninitialized and UMSTrace and UMSUpdate fail until a UMSSetup
\* succeeds; one refused because the engine is initialized leaves it initialized
C12_FailedSetupKeepsInitialized ==
    [][ /\ FailedSetup => (ums_state'.initialized <=> ums_state.initialized)
        /\ UninitializedFailsFast
      ]_vars

\* a UMSSetup was refused on an engine that UMSDestroy had torn down
C12_Witness ==
    /\ ~ums_state.initialized
    /\ ret = [op |-> "UMSSetup", val |-> "false"]
    /\ irq_off

\* C13: UMSDestroy can be called whenever the foreground is between calls, on an
\* initialized engine or not; it leaves the engine uninitialized with no channel
\* and no transmission active, and a UMSDestroy that directly follows a UMSDestroy
\* leaves the engine state and the interrupt mask as the first call left them
C13_DestroyIdempotent ==
    /\ [](pc = "idle" /\ tc.pc = "idle" => ENABLED UMSDestroy)
    /\ [][ UMSDestroy =>
              /\ ~ums_state'.initialized
              /\ ums_state'.channel_count = 0
              /\ ~ums_state'.transmission_active
              /\ ret.op = "UMSDestroy" =>
                    /\ ums_state' = ums_state
                    /\ irq_off' = irq_off /\ cs_depth' = cs_depth
         ]_vars

\* UMSDestroy has torn down an engine that had critical-section callbacks
C13_Witness ==
    /\ ret.op = "UMSDestroy"
    /\ ums_state = ZeroState
    /\ irq_off

\* C14: without a time provider the n-th successful UMSUpdate since UMSSetup
\* (n = 0, 1, 2, ...) stamps its sample with n: the counter is the number of
\* successful updates that have read it, whatever failed UMSUpdate, UMSTrace and
\* UMSTransmissionComplete calls came between, and it is 0 again after UMSDestroy
\* and UMSSetup
C14_CounterTimestamp ==
    (ums_state.initialized /\ ums_state.time_provider = NULL) =>
        /\ ums_state.timestamp =
              IF pc \in {"u_timestamp", "u_counter"} THEN upd_count - 1 ELSE upd_count
        /\ pc = "u_assemble" => upd.current_timestamp = upd_count - 1
        /\ pc \in {"u_swap", "u_transmit"} =>
              ums_state.buffers[upd.sample].timestamp = upd_count - 1

\* the third update of a setup in counter mode has stamped its sample, after a
\* completion ran during the update
C14_Witness ==
    /\ ums_state.initialized /\ ums_state.time_provider = NULL
    /\ pc = "u_swap" /\ upd_count = 3
    /\ ums_state.buffers[upd.sample].timestamp = 2
    /\ ret.op = "UMSTransmissionComplete"

\* C15: transmit_fn is never invoked while the engine is inside a critical
\* section: every invocation, from UMSUpdate or UMSTransmissionComplete, comes
\* after the matching exit, with interrupts enabled, and the engine never enters
\* a critical section while it is inside one
C15_TransmitOutsideCritical ==
    /\ cs_depth \in {0, 1}
    /\ last_tx.from # "none" => (last_tx.depth = 0 /\ ~last_tx.masked)

\* C16: after UMSDestroy the role indices are the defaults of UMSSetup (write 0,
\* pending 1, transmit 2, pairwise distinct), no channel is registered, no
\* transmission is active and the engine is uninitialized
C16_DestroyRestoresDefaults ==
    ret.op = "UMSDestroy" =>
        /\ ums_state.write_idx = BUFFER_WRITE
        /\ ums_state.pending_idx = BUFFER_PENDING
        /\ ums_state.transmit_idx = BUFFER_TRANSMIT
        /\ Cardinality(RoleIndices) = NUM_BUFFERS
        /\ ums_state.channel_count = 0
        /\ \A i \in Channels : ums_state.trace_vars[i] = NULL
        /\ ~ums_state.transmission_active
        /\ ~ums_state.initialized

\* C17: while the driver completes each transmission once, no step of UMSUpdate,
\* UMSTrace, UMSDestroy or UMSSetup changes the contents of a slot that was handed
\* to transmit_fn and whose completion has not yet arrived
C17_InFlightSlotUntouched ==
    [][ \A i \in DOMAIN outstanding :
            ums_state'.buffers[outstanding[i]] = ums_state.buffers[outstanding[i]]
      ]_vars

\* C18: critical sections are balanced: whenever no engine call is running, every
\* call of the configured enter callback has been matched by a call of the
\* configured exit callback, so interrupts are enabled again and the engine is
\* outside every critical section
C18_CriticalSectionsBalanced ==
    (pc = "idle" /\ tc.pc = "idle") => (cs_depth = 0 /\ ~irq_off)

\* C19: every slot handed to transmit_fn was filled by a successful UMSUpdate
\* since the last UMSSetup: transmit_fn never receives a slot that is still the
\* all-zero sample with channels = 0
C19_OnlyFilledSlotsSent ==
    last_tx.from # "none" =>
        /\ slot_seq[last_tx.slot] # 0
        /\ last_tx.channels # 0
        /\ ums_state.buffers[last_tx.slot] # ZeroSample

\* C20: samples reach transmit_fn in the order they were assembled: of two
\* transmit_fn invocations since setup, the later one never hands over a sample
\* that an earlier UMSUpdate assembled than the sample of the earlier one
C20_TransmitInAssemblyOrder ==
    \A i, j \in DOMAIN tx_log :
        (i < j /\ tx_log[i] # 0 /\ tx_log[j] # 0) => tx_log[i] <= tx_log[j]

\* C21: the length passed to transmit_fn matches the sample being sent: it is
\* 5 + 4*c for the channels field c stored in the slot when it was assembled, also
\* when UMSTrace registered a channel between the UMSUpdate that queued the sample
\* and the UMSTransmissionComplete that sends it
C21_LengthMatchesSample ==
    (last_tx.from # "none" /\ last_tx.channels # 0) =>
        last_tx.length = 5 + 4 * last_tx.channels

\* a step that invokes transmit_fn
TransmitFnInvoked ==
    \/ UMSUpdate_Transmit /\ upd.start_transmission
    \/ tc.pc = "c_transmit" /\ tc'.pc = "idle" /\ tc.start_transmission

\* C22: quiescence.  If UMSUpdate is called only finitely often and the driver
\* completes every transmission it is handed, then eventually transmission_active
\* is false for good and transmit_fn is never invoked again
C22_Quiescence ==
    <>[][~UMSUpdate_Entry]_vars =>
        /\ <>[](~ums_state.transmission_active)
        /\ <>[][~TransmitFnInvoked]_vars

====
